---- MODULE Spec2Model ----
(***************************************************************************)
(* LangX front-end: the App component's transcribe -> translate ->         *)
(* synthesize orchestration (src/frontend/src/App.jsx) and the Recorder    *)
(* component's capture session (src/frontend/src/components/Recorder.jsx). *)
(*                                                                         *)
(* React state is one variable per useState/useRef.  An async handler is   *)
(* split at each await: the synchronous prefix is one action, and every    *)
(* continuation after an awaited promise settles is one action.  A handler *)
(* closes over the state of the render it was created in, so the values it *)
(* reads after an await (targetLang, clonedAudioUrl, translation) are the  *)
(* ones stored in its call record, not the current state.                  *)
(***************************************************************************)
EXTENDS Integers, Sequences, FiniteSets, TLC

\* ------------------------------------------------------------------ bounds
\* Handler invocations that start asynchronous work (each gets a run id).
MaxRuns == 3
\* Async handler invocations suspended at an await at the same time.
MaxInFlight == 2

\* --------------------------------------------------------- program constants
LANGUAGES == {"es", "fr", "zh"}
ALLOWED_AUDIO_TYPES == {"audio/wav", "audio/mp3", "audio/mpeg"}
MAX_FILE_SIZE == 10 * 1024 * 1024

TRANSCRIBE == "/transcribe"
TRANSLATE == "/translate_text"
SYNTHESIZE == "/synthesize"

NETWORK == "Network error. Please check your connection."
SERVER == "Server error. Please try again later."
TRANSCRIPTION_NO_AUDIO == "No audio file provided."
TRANSCRIPTION_INVALID_FORMAT == "Invalid audio format."
TRANSCRIPTION_FAILED == "Failed to transcribe audio."
TRANSLATION_NO_TEXT == "No text to translate."
TRANSLATION_INVALID_LANG == "Invalid target language."
TRANSLATION_FAILED == "Failed to translate text."
SYNTHESIS_NO_REFERENCE == "No reference audio provided."
SYNTHESIS_NO_TEXT == "No text to synthesize."
SYNTHESIS_FAILED == "Failed to synthesize voice."
FILE_TOO_LARGE == "File size must be less than 10MB."

\* The backend's "no result" text, compared against in both transcribe paths.
SENTINEL == "No transcription available"

\* useState(null) / useRef(null): the null values of the nullable state.
NoUrl == 0
NullBlob == "null"
NoFile == [name |-> "", type |-> "", size |-> 0]

\* ------------------------------------------------------------- input values
\* Blobs handed to handleRecordingComplete: null, a zero-length Blob, a Blob.
Blobs == {"emptyBlob", "blobA"}
BlobInputs == Blobs \cup {NullBlob}

\* Files the user can select in the file input.
FileInputs ==
    {
      [name |-> "full.mp3",  type |-> "audio/mpeg", size |-> MAX_FILE_SIZE],
      [name |-> "over.mp3",  type |-> "audio/mp3",  size |-> MAX_FILE_SIZE + 1],
      [name |-> "big.wav",   type |-> "audio/wav",  size |-> 15 * 1024 * 1024],
      [name |-> "notes.txt", type |-> "text/plain", size |-> 1024] }

\* Values a caller can hand to handleLanguageChange / translateText directly.
LangInputs == {"es", "fr", ""}
\* Languages the user picks in the Select (its items are LANGUAGES).
LangChoices == {"es", "fr"}
TextInputs == {"", "Hello world"}

\* What the translation backend answers for a text in a language.
TranslationOf(text, lang) ==
    IF text = "Hello world"
    THEN CASE lang = "es" -> "Hola mundo"
           [] lang = "fr" -> "Bonjour le monde"
           [] lang = "zh" -> "Ni hao shijie"
           [] OTHER       -> ""
    ELSE ""

\* ---------------------------------------------------------------- replies
\* A settled axios promise: resolved (2xx) with a body, rejected with a
\* response (non-2xx), or rejected without one (timeout, network down).
Reply(outcome, status, field, value, serverMsg) ==
    [outcome |-> outcome, status |-> status, field |-> field,
     value |-> value, serverMsg |-> serverMsg]

Rejections ==
    { Reply("response", 500, "", "", m) : m \in {"", "Backend exploded"} }
      \cup { Reply("request", 0, "", "", "") }

\* /transcribe answers { transcription: string } or { text: string }.
TranscribeReplies ==
    { Reply("resolve", 200, f, v, "") :
        f \in {"transcription", "text"}, v \in {"", "Hello world", SENTINEL} }
      \cup { Reply("resolve", 201, "text", "Hello world", "") }
      \cup Rejections

\* /translate_text answers { translations: { [lang]: string } }: `field` is
\* the language key present in the answer, `value` the text under it.
TranslateReplies(text) ==
    UNION { { Reply("resolve", 200, l, v, "") : v \in {"", TranslationOf(text, l)} } :
            l \in LangChoices }
      \cup Rejections

\* /synthesize answers a binary body: `status` 200, `value` its size class.
SynthesizeReplies ==
    { Reply("resolve", 200, "blob", v, "") : v \in {"", "audio"} }
      \cup Rejections

\* -------------------------------------------------------------------- state
VARIABLES
    transcription, translation,          \* useState('')
    isTranscribing, isTranslating, isCloning,
    targetLang,                          \* useState('es')
    clonedAudioUrl,                      \* useState(null)
    lastRecordingRef,                    \* useRef(null).current
    uploadedFile,                        \* useState(null)
    mounted,                             \* the App component is mounted
    calls,                               \* suspended async handler invocations
    requests,                            \* network requests not yet settled
    nextRun,                             \* next run id
    nextUrl,                             \* next object URL id
    latestChain,                         \* run id of the newest transcription
    revokeCount                          \* URL.revokeObjectURL calls per URL

appVars == <<transcription, translation, isTranscribing, isTranslating,
             isCloning, targetLang, clonedAudioUrl, lastRecordingRef,
             uploadedFile, mounted, calls, requests, nextRun, nextUrl,
             latestChain, revokeCount>>

\* Recorder component state, and the AudioRecorder sessions it creates.
VARIABLES
    rec_isRecording, rec_isLoading,      \* useState(false)
    rec_audioUrl,                        \* useState(null): preview URL
    rec_error,                           \* useState(null)
    recorderRef,                         \* useRef(null).current: a session
    session,                             \* AudioRecorder state per session
    streamOpen,                          \* the session's MediaStream is live
    chunks,                              \* chunks buffered per session
    recOps,                              \* suspended startRecording/stopRecording
    nextSession

\* The handler step (or continuation) just executed, and the error it showed.
VARIABLES lastOp

recVars == <<rec_isRecording, rec_isLoading, rec_audioUrl, rec_error,
             recorderRef, session, streamOpen, chunks, recOps, nextSession>>

\* AudioPlayer component state, its <audio> element, and the object URLs its
\* effect creates.
VARIABLES
    ap_mounted,                          \* an AudioPlayer is mounted
    ap_src,                              \* the src prop
    ap_audioUrl,                         \* useState(null)
    ap_cleanup,                          \* URL the effect's cleanup closes over
    ap_phase,                            \* commit of a render with a new src
    ap_nextUrl,                          \* next object URL id
    ap_revokeCount,                      \* URL.revokeObjectURL calls per URL
    ap_isPlaying, ap_volume, ap_isMuted, \* useState(false), (1), (false)
    el_volume, el_muted, el_playing,     \* audioRef.current
    ap_plays                             \* play() promises not yet settled

playerVars == <<ap_mounted, ap_src, ap_audioUrl, ap_cleanup, ap_phase,
                ap_nextUrl, ap_revokeCount, ap_isPlaying, ap_volume,
                ap_isMuted, el_volume, el_muted, el_playing, ap_plays>>

\* The Recorder's preview playback, and the object URLs of its previews.
VARIABLES
    rec_isPlaying,                       \* useState(false)
    rec_plays,                           \* play() promises not yet settled
    rec_elPlaying,                       \* the preview <audio> is playing
    rec_revokeCount                      \* URL.revokeObjectURL calls per preview

previewVars == <<rec_isPlaying, rec_plays, rec_elPlaying, rec_revokeCount>>

\* The Home page (src/unnamed/part_001), which renders a Recorder.
VARIABLES
    home_recordedAudio,                  \* useState(null): an object URL
    home_nextUrl,                        \* next object URL id
    home_revokeCount                     \* URL.revokeObjectURL calls per URL

homeVars == <<home_recordedAudio, home_nextUrl, home_revokeCount>>

\* The notifications opened by notify.loading, by the stage that opened them.
VARIABLES toasts
toastVars == <<toasts>>

\* Everything outside the App component and the recording part of its
\* Recorder.
sideVars == <<playerVars, previewVars, homeVars, toastVars>>

vars == <<appVars, recVars, sideVars, lastOp>>

UrlIds == 1..MaxRuns

\* Object URLs created by URL.createObjectURL for synthesized results.
CreatedUrls == 1..(nextUrl - 1)
\* Created and not yet revoked.
LiveUrls == {u \in CreatedUrls : revokeCount[u] = 0}

\* URL.revokeObjectURL(u)
RevokeObjectURL(u) == [revokeCount EXCEPT ![u] = @ + 1]

\* arg: the handler's argument; was: the translation it replaced.
OpArg(op, arg, was, err) == [op |-> op, arg |-> arg, was |-> was, err |-> err]
Op(op, err) == OpArg(op, "", "", err)

Call(id, kind, pc, lang, text, url) ==
    [id |-> id, kind |-> kind, pc |-> pc, lang |-> lang, text |-> text, url |-> url]

Request(id, endpoint, text, lang, ref, fname) ==
    [id |-> id, endpoint |-> endpoint,
     text |-> text, lang |-> lang, ref |-> ref, fname |-> fname]

\* Variant in which a settled request is sent again: it stays outstanding.
Settle_Retry(id, endpoint) == requests

\* The request of run `id` to `endpoint` settles.
Settle(id, endpoint) ==
    {q \in requests : ~(q.id = id /\ q.endpoint = endpoint)}

\* A handler may suspend at an await: a run id and a slot are left.
CanStart == nextRun <= MaxRuns /\ Cardinality(calls) < MaxInFlight

InitApp ==
    /\ transcription = ""
    /\ translation = ""
    /\ isTranscribing = FALSE
    /\ isTranslating = FALSE
    /\ isCloning = FALSE
    /\ targetLang = "es"
    /\ clonedAudioUrl = NoUrl
    /\ lastRecordingRef = NullBlob
    /\ uploadedFile = NoFile
    /\ mounted = TRUE
    /\ calls = {}
    /\ requests = {}
    /\ nextRun = 1
    /\ nextUrl = 1
    /\ latestChain = 0
    /\ revokeCount = [u \in UrlIds |-> 0]

\* ------------------------------------------------------------ handleApiError
\* The message handleApiError(error, customMessage) passes to notify.error.
\* A thrown `new Error(...)` has neither .response nor .request.
HandleApiError(reply, customMessage) ==
    IF reply.outcome = "response"
    THEN (IF reply.serverMsg # "" THEN reply.serverMsg ELSE customMessage)
    ELSE IF reply.outcome = "request"
    THEN NETWORK
    ELSE customMessage

\* ------------------------------------------------------ handleLanguageChange
\* Variant without setTranslation(''): the old translation stays displayed.
HandleLanguageChange_KeepsTranslation(value) ==
    /\ mounted
    /\ targetLang' = value
    /\ lastOp' = OpArg("handleLanguageChange", value, translation, "")
    /\ UNCHANGED <<transcription, translation, isTranscribing, isTranslating,
                   isCloning, clonedAudioUrl, lastRecordingRef, uploadedFile,
                   mounted, calls, requests, nextRun, nextUrl, latestChain,
                   revokeCount>>

HandleLanguageChange(value) ==
    /\ mounted
    /\ targetLang' = value
    /\ translation' = ""
    /\ lastOp' = OpArg("handleLanguageChange", value, translation, "")
    /\ UNCHANGED <<transcription, isTranscribing, isTranslating, isCloning,
                   clonedAudioUrl, lastRecordingRef, uploadedFile, mounted,
                   calls, requests, nextRun, nextUrl, latestChain, revokeCount>>

\* ------------------------------------------------------------- translateText
\* Variant without the `if (!targetLang)` guard.
TranslatePrecondition_NoLanguageGuard(text, lang) ==
    IF text = "" THEN TRANSLATION_NO_TEXT ELSE ""

\* The two guards at the top of translateText: the error it reports, or "".
TranslatePrecondition(text, lang) ==
    IF text = "" THEN TRANSLATION_NO_TEXT
    ELSE IF lang = "" THEN TRANSLATION_INVALID_LANG
    ELSE ""

\* translateText(text) called on its own, up to its await.
TranslateText(text) ==
    /\ mounted
    /\ LET err == TranslatePrecondition(text, targetLang) IN
       IF err # ""
       THEN /\ lastOp' = OpArg("translateText", text, "", err)
            /\ UNCHANGED <<isTranslating, calls, requests, nextRun>>
       ELSE /\ CanStart
            /\ isTranslating' = TRUE
            /\ requests' = requests \cup
                  {Request(nextRun, TRANSLATE, text, targetLang, "", "")}
            /\ calls' = calls \cup
                  {Call(nextRun, "translate", "translate", targetLang, text, NoUrl)}
            /\ nextRun' = nextRun + 1
            /\ lastOp' = OpArg("translateText", text, "", "")
    /\ UNCHANGED <<transcription, translation, isTranscribing, isCloning,
                   targetLang, clonedAudioUrl, lastRecordingRef, uploadedFile,
                   mounted, nextUrl, latestChain, revokeCount>>

\* Variant that takes whatever translation the answer carries.
TranslationIn_AnyLanguage(reply, lang) ==
    IF reply.outcome = "resolve" THEN reply.value ELSE ""

\* response.data.translations[targetLang], with targetLang the closure's.
TranslationIn(reply, lang) ==
    IF reply.outcome = "resolve" /\ reply.field = lang THEN reply.value ELSE ""

\* The continuation of translateText after its axios.post settles, followed
\* by the caller's `finally` (handleRecordingComplete / handleFileUpload
\* awaited translateText, which never rethrows).
TranslateSettled(c, reply) ==
    /\ mounted
    /\ c \in calls /\ c.pc = "translate"
    /\ reply \in TranslateReplies(c.text)
    /\ LET t == TranslationIn(reply, c.lang) IN
       /\ translation' = IF t # "" THEN t ELSE translation
       /\ requests' = Settle(c.id, TRANSLATE)
       /\ lastOp' = Op("translateSettled",
                       IF t # "" THEN "" ELSE HandleApiError(reply, TRANSLATION_FAILED))
    /\ isTranslating' = FALSE
    /\ isTranscribing' = IF c.kind = "translate" THEN isTranscribing ELSE FALSE
    /\ calls' = calls \ {c}
    /\ UNCHANGED <<transcription, isCloning, targetLang, clonedAudioUrl,
                   lastRecordingRef, uploadedFile, mounted, nextRun, nextUrl,
                   latestChain, revokeCount>>

\* --------------------------------------------------- handleRecordingComplete
\* handleRecordingComplete(audioBlob) up to its await; `lang` is targetLang of
\* the render whose handler the Recorder holds.
HandleRecordingComplete(audioBlob, lang) ==
    /\ mounted
    /\ IF audioBlob = NullBlob
       THEN /\ lastOp' = OpArg("handleRecordingComplete", audioBlob, "", TRANSCRIPTION_NO_AUDIO)
            /\ UNCHANGED <<translation, isTranscribing, clonedAudioUrl,
                           lastRecordingRef, calls, requests, nextRun, latestChain>>
       ELSE /\ CanStart
            /\ latestChain' = nextRun
            /\ isTranscribing' = TRUE
            /\ translation' = ""
            /\ clonedAudioUrl' = NoUrl
            /\ lastRecordingRef' = audioBlob
            /\ requests' = requests \cup
                  {Request(nextRun, TRANSCRIBE, "", "", audioBlob, "recording.webm")}
            /\ calls' = calls \cup
                  {Call(nextRun, "record", "transcribe", lang, "", NoUrl)}
            /\ nextRun' = nextRun + 1
            /\ lastOp' = OpArg("handleRecordingComplete", audioBlob, "", "")
    /\ UNCHANGED <<transcription, isTranslating, isCloning, targetLang,
                   uploadedFile, mounted, nextUrl, revokeCount>>

\* The text a transcribe reply yields: handleRecordingComplete reads
\* data.transcription; handleFileUpload needs status 200 and reads data.text.
TranscribedText(kind, reply) ==
    IF reply.outcome # "resolve" THEN ""
    ELSE IF kind = "record"
    THEN (IF reply.field = "transcription" THEN reply.value ELSE "")
    ELSE (IF reply.status = 200 /\ reply.field = "text" THEN reply.value ELSE "")

\* The message shown when transcription fails: handleRecordingComplete calls
\* handleApiError, handleFileUpload shows error.message or the default.
TranscribeError(kind, reply) ==
    IF kind = "record" THEN HandleApiError(reply, TRANSCRIPTION_FAILED)
    ELSE IF reply.outcome = "resolve" THEN TRANSCRIPTION_FAILED
    ELSE IF reply.outcome = "response" THEN "Request failed with status code 500"
    ELSE "Network Error"

\* Variant that translates the `transcription` state of the handler's render
\* instead of the text just returned.
TextToTranslate_FromState(t) == transcription

\* The argument of `await translateText(transcribedText)`.
TextToTranslate(t) == t

\* The continuation of handleRecordingComplete / handleFileUpload after the
\* transcribe request settles, run up to the await inside translateText (which
\* posts to `endpoint`) or to the end of the handler.
TranscribeSettledVia(c, reply, endpoint) ==
    /\ mounted
    /\ c \in calls /\ c.pc = "transcribe"
    /\ reply \in TranscribeReplies
    /\ LET t == TranscribedText(c.kind, reply) IN
       IF t = ""
       THEN \* catch: setTranscription(''); finally: setIsTranscribing(false)
            /\ transcription' = ""
            /\ isTranscribing' = FALSE
            /\ calls' = calls \ {c}
            /\ requests' = Settle(c.id, TRANSCRIBE)
            /\ lastOp' = Op("transcribeSettled", TranscribeError(c.kind, reply))
            /\ UNCHANGED isTranslating
       ELSE /\ transcription' = t
            /\ IF t # SENTINEL /\ TranslatePrecondition(TextToTranslate(t), c.lang) = ""
               THEN \* await translateText(t): runs up to its axios.post
                    /\ isTranslating' = TRUE
                    /\ calls' = (calls \ {c}) \cup
                          {[c EXCEPT !.pc = "translate", !.text = TextToTranslate(t)]}
                    /\ requests' = Settle(c.id, TRANSCRIBE) \cup
                          {Request(c.id, endpoint, TextToTranslate(t), c.lang, "", "")}
                    /\ lastOp' = Op("transcribeSettled", "")
                    /\ UNCHANGED isTranscribing
               ELSE \* translation skipped, or translateText returned at a guard
                    /\ isTranscribing' = FALSE
                    /\ calls' = calls \ {c}
                    /\ requests' = Settle(c.id, TRANSCRIBE)
                    /\ lastOp' = Op("transcribeSettled",
                                    IF t = SENTINEL THEN ""
                                    ELSE TranslatePrecondition(TextToTranslate(t), c.lang))
                    /\ UNCHANGED isTranslating
    /\ UNCHANGED <<translation, isCloning, targetLang, clonedAudioUrl,
                   lastRecordingRef, uploadedFile, mounted, nextRun, nextUrl,
                   latestChain, revokeCount>>

TranscribeSettled(c, reply) == TranscribeSettledVia(c, reply, TRANSLATE)

\* ---------------------------------------------------------- handleFileUpload
\* Variant that trusts the input's accept=".wav,.mp3" attribute.
TypeAllowed_Unchecked(file) == TRUE

\* ALLOWED_AUDIO_TYPES.includes(file.type)
TypeAllowed(file) == file.type \in ALLOWED_AUDIO_TYPES

\* Variant with the comparison off by one.
TooLarge_Inclusive(file) == file.size >= MAX_FILE_SIZE

\* file.size > MAX_FILE_SIZE
TooLarge(file) == file.size > MAX_FILE_SIZE

\* handleFileUpload(event) with event.target.files[0] = file, up to its await.
HandleFileUpload(file) ==
    /\ mounted
    /\ IF file = NoFile
       THEN /\ lastOp' = OpArg("handleFileUpload", file.name, "", "")
            /\ UNCHANGED <<translation, isTranscribing, clonedAudioUrl,
                           uploadedFile, calls, requests, nextRun, latestChain>>
       ELSE IF ~TypeAllowed(file)
       THEN /\ lastOp' = OpArg("handleFileUpload", file.name, "", TRANSCRIPTION_INVALID_FORMAT)
            /\ UNCHANGED <<translation, isTranscribing, clonedAudioUrl,
                           uploadedFile, calls, requests, nextRun, latestChain>>
       ELSE IF TooLarge(file)
       THEN /\ lastOp' = OpArg("handleFileUpload", file.name, "", FILE_TOO_LARGE)
            /\ UNCHANGED <<translation, isTranscribing, clonedAudioUrl,
                           uploadedFile, calls, requests, nextRun, latestChain>>
       ELSE /\ CanStart
            /\ latestChain' = nextRun
            /\ uploadedFile' = file
            /\ isTranscribing' = TRUE
            /\ translation' = ""
            /\ clonedAudioUrl' = NoUrl
            /\ requests' = requests \cup
                  {Request(nextRun, TRANSCRIBE, "", "", file.name, file.name)}
            /\ calls' = calls \cup
                  {Call(nextRun, "upload", "transcribe", targetLang, "", NoUrl)}
            /\ nextRun' = nextRun + 1
            /\ lastOp' = OpArg("handleFileUpload", file.name, "", "")
    /\ UNCHANGED <<transcription, isTranslating, isCloning, targetLang,
                   lastRecordingRef, mounted, nextUrl, revokeCount>>

\* ---------------------------------------------------------- handleRemoveFile
HandleRemoveFile ==
    /\ mounted
    /\ uploadedFile' = NoFile
    /\ lastOp' = Op("handleRemoveFile", "")
    /\ UNCHANGED <<transcription, translation, isTranscribing, isTranslating,
                   isCloning, targetLang, clonedAudioUrl, lastRecordingRef,
                   mounted, calls, requests, nextRun, nextUrl, latestChain,
                   revokeCount>>

\* ---------------------------------------------------------- handleCloneVoice
\* Variant without the reference-audio guard.
ClonePrecondition_NoReferenceGuard ==
    IF translation = "" THEN SYNTHESIS_NO_TEXT ELSE ""

\* The two guards at the top of handleCloneVoice: the error reported, or "".
ClonePrecondition ==
    IF translation = "" THEN SYNTHESIS_NO_TEXT
    ELSE IF lastRecordingRef = NullBlob /\ uploadedFile = NoFile
    THEN SYNTHESIS_NO_REFERENCE
    ELSE ""

\* Variant that prefers the recording: lastRecordingRef.current || uploadedFile
ReferenceAudio_RecordingFirst ==
    IF lastRecordingRef # NullBlob THEN lastRecordingRef ELSE uploadedFile.name

\* uploadedFile || lastRecordingRef.current
ReferenceAudio == IF uploadedFile # NoFile THEN uploadedFile.name ELSE lastRecordingRef
\* uploadedFile ? uploadedFile.name : 'reference.webm'
ReferenceName == IF uploadedFile # NoFile THEN uploadedFile.name ELSE "reference.webm"

\* handleCloneVoice() up to its await.
HandleCloneVoice ==
    /\ mounted
    /\ IF ClonePrecondition # ""
       THEN /\ lastOp' = Op("handleCloneVoice", ClonePrecondition)
            /\ UNCHANGED <<isCloning, calls, requests, nextRun>>
       ELSE /\ CanStart
            /\ isCloning' = TRUE
            /\ requests' = requests \cup
                  {Request(nextRun, SYNTHESIZE, translation, "", ReferenceAudio, ReferenceName)}
            /\ calls' = calls \cup
                  {Call(nextRun, "clone", "synthesize", "", translation, clonedAudioUrl)}
            /\ nextRun' = nextRun + 1
            /\ lastOp' = Op("handleCloneVoice", "")
    /\ UNCHANGED <<transcription, translation, isTranscribing, isTranslating,
                   targetLang, clonedAudioUrl, lastRecordingRef, uploadedFile,
                   mounted, nextUrl, latestChain, revokeCount>>

\* !response.data || response.data.size === 0 is false
SynthesisUsable(reply) == reply.outcome = "resolve" /\ reply.value # ""

\* Variant without the revocation of the previous URL.
UrlToRevoke_Nothing(c) == NoUrl

\* The object URL handleCloneVoice revokes on success: the clonedAudioUrl of
\* the render the handler was created in (c.url), if it is set.
UrlToRevoke(c) == c.url

\* URL.createObjectURL(audioBlob): the URL stored by setClonedAudioUrl.
CreatedUrl == nextUrl

\* Variant whose catch block leaves the displayed URL alone.
UrlAfterFailure_Kept == clonedAudioUrl

\* setClonedAudioUrl(null) in the catch block of handleCloneVoice.
UrlAfterFailure == NoUrl

\* Variant without the `finally` block.
CloningAfterFinally_Kept == isCloning

\* finally { setIsCloning(false) }
CloningAfterFinally == FALSE

\* The continuation of handleCloneVoice after the synthesize request settles.
SynthesizeSettled(c, reply) ==
    /\ mounted
    /\ c \in calls /\ c.pc = "synthesize"
    /\ reply \in SynthesizeReplies
    /\ IF SynthesisUsable(reply)
       THEN /\ revokeCount' = IF UrlToRevoke(c) # NoUrl
                              THEN RevokeObjectURL(UrlToRevoke(c))
                              ELSE revokeCount
            /\ nextUrl' = nextUrl + 1
            /\ clonedAudioUrl' = CreatedUrl
            /\ requests' = Settle(c.id, SYNTHESIZE)
            /\ lastOp' = Op("synthesizeSettled", "")
       ELSE /\ clonedAudioUrl' = UrlAfterFailure
            /\ requests' = Settle(c.id, SYNTHESIZE)
            /\ lastOp' = Op("synthesizeSettled",
                            HandleApiError(reply, SYNTHESIS_FAILED))
            /\ UNCHANGED <<nextUrl, revokeCount>>
    /\ isCloning' = CloningAfterFinally
    /\ calls' = calls \ {c}
    /\ UNCHANGED <<transcription, translation, isTranscribing, isTranslating,
                   targetLang, lastRecordingRef, uploadedFile, mounted, nextRun,
                   latestChain>>

\* ------------------------------------------------------------------- unmount
\* The effect has an empty dependency list, so its cleanup closes over the
\* clonedAudioUrl of the first render.
CleanupUrl == NoUrl

\* The component unmounts: the effect cleanup runs, and the component's state
\* is discarded with it (only the object URLs it created outlive it).
Unmount ==
    /\ mounted
    /\ mounted' = FALSE
    /\ revokeCount' = IF CleanupUrl # NoUrl THEN RevokeObjectURL(CleanupUrl)
                      ELSE revokeCount
    /\ lastOp' = Op("unmount", "")
    /\ transcription' = ""
    /\ translation' = ""
    /\ isTranscribing' = FALSE
    /\ isTranslating' = FALSE
    /\ isCloning' = FALSE
    /\ targetLang' = "es"
    /\ clonedAudioUrl' = NoUrl
    /\ lastRecordingRef' = NullBlob
    /\ uploadedFile' = NoFile
    /\ calls' = {}
    /\ requests' = {}
    /\ UNCHANGED <<nextRun, nextUrl, latestChain>>

\* ======================================= the App of src/unnamed/part_000
\* An earlier copy of the App component.  It differs from App.jsx in four
\* places: translateText posts to /translate, reads data.translation and
\* clears the translation when it fails; handleFileUpload only stores the
\* file; and the cleanup effect depends on [clonedAudioUrl], so its cleanup
\* runs after every render in which clonedAudioUrl changed, with the
\* clonedAudioUrl of the render before.
LEGACY_TRANSLATE == "/translate"

\* /translate answers { translation: string }.
LegacyTranslateReplies(text, lang) ==
    { Reply("resolve", 200, "translation", v, "") : v \in {"", TranslationOf(text, lang)} }
      \cup Rejections

LegacyTranscribeSettled(c, reply) == TranscribeSettledVia(c, reply, LEGACY_TRANSLATE)

LegacyTranslateSettled(c, reply) ==
    /\ mounted
    /\ c \in calls /\ c.pc = "translate"
    /\ reply \in LegacyTranslateReplies(c.text, c.lang)
    /\ LET t == IF reply.outcome = "resolve" THEN reply.value ELSE "" IN
       /\ translation' = t
       /\ lastOp' = Op("translateSettled",
                       IF t # "" THEN "" ELSE HandleApiError(reply, TRANSLATION_FAILED))
    /\ requests' = Settle(c.id, LEGACY_TRANSLATE)
    /\ isTranslating' = FALSE
    /\ isTranscribing' = FALSE
    /\ calls' = calls \ {c}
    /\ UNCHANGED <<transcription, isCloning, targetLang, clonedAudioUrl,
                   lastRecordingRef, uploadedFile, mounted, nextRun, nextUrl,
                   latestChain, revokeCount>>

LegacyFileError == "Please upload a .wav or .mp3 file only."

LegacyHandleFileUpload(file) ==
    /\ mounted
    /\ IF file = NoFile
       THEN /\ lastOp' = OpArg("handleFileUpload", file.name, "", "")
            /\ UNCHANGED uploadedFile
       ELSE IF ~TypeAllowed(file)
       THEN /\ lastOp' = OpArg("handleFileUpload", file.name, "", LegacyFileError)
            /\ UNCHANGED uploadedFile
       ELSE IF TooLarge(file)
       THEN /\ lastOp' = OpArg("handleFileUpload", file.name, "", FILE_TOO_LARGE)
            /\ UNCHANGED uploadedFile
       ELSE /\ uploadedFile' = file
            /\ lastOp' = OpArg("handleFileUpload", file.name, "", "")
    /\ UNCHANGED <<transcription, translation, isTranscribing, isTranslating,
                   isCloning, targetLang, clonedAudioUrl, lastRecordingRef,
                   mounted, calls, requests, nextRun, nextUrl, latestChain,
                   revokeCount>>

\* if (u) URL.revokeObjectURL(u), applied to the revocation counts.
Revoked(counts, u) == IF u = NoUrl THEN counts ELSE [counts EXCEPT ![u] = @ + 1]

\* The renders that follow setClonedAudioUrl(new).  The render with `new`
\* runs the cleanup closed over the URL before it: that URL is revoked and
\* transcription, translation, clonedAudioUrl and uploadedFile are reset.
\* The reset changes clonedAudioUrl again (to null), so the next render runs
\* the cleanup closed over `new`, which revokes `new`.
EffectRevocations(counts, new) == Revoked(Revoked(counts, clonedAudioUrl), new)

\* The continuation of handleCloneVoice after the synthesize request settles,
\* with the effect cleanups of the renders it causes.
LegacySynthesizeSettled(c, reply) ==
    /\ mounted
    /\ c \in calls /\ c.pc = "synthesize"
    /\ reply \in SynthesizeReplies
    /\ LET new == IF SynthesisUsable(reply) THEN CreatedUrl ELSE NoUrl IN
       /\ nextUrl' = IF SynthesisUsable(reply) THEN nextUrl + 1 ELSE nextUrl
       /\ lastOp' = Op("synthesizeSettled",
                       IF SynthesisUsable(reply) THEN ""
                       ELSE HandleApiError(reply, SYNTHESIS_FAILED))
       /\ IF new # clonedAudioUrl
          THEN /\ revokeCount' =
                     EffectRevocations(
                        IF SynthesisUsable(reply) THEN Revoked(revokeCount, c.url)
                        ELSE revokeCount, new)
               /\ clonedAudioUrl' = NoUrl
               /\ transcription' = ""
               /\ translation' = ""
               /\ uploadedFile' = NoFile
          ELSE /\ UNCHANGED <<revokeCount, clonedAudioUrl, transcription,
                              translation, uploadedFile>>
    /\ requests' = Settle(c.id, SYNTHESIZE)
    /\ isCloning' = FALSE
    /\ calls' = calls \ {c}
    /\ UNCHANGED <<isTranscribing, isTranslating, targetLang, lastRecordingRef,
                   mounted, nextRun, latestChain>>

\* Unmount runs the cleanup of the last render's effect.
LegacyUnmount ==
    /\ mounted
    /\ mounted' = FALSE
    /\ revokeCount' = Revoked(revokeCount, clonedAudioUrl)
    /\ lastOp' = Op("unmount", "")
    /\ transcription' = ""
    /\ translation' = ""
    /\ isTranscribing' = FALSE
    /\ isTranslating' = FALSE
    /\ isCloning' = FALSE
    /\ targetLang' = "es"
    /\ clonedAudioUrl' = NoUrl
    /\ lastRecordingRef' = NullBlob
    /\ uploadedFile' = NoFile
    /\ calls' = {}
    /\ requests' = {}
    /\ UNCHANGED <<nextRun, nextUrl, latestChain>>

\* No render of this component that the user can act on holds a synthesized
\* URL: handleRecordingComplete's setClonedAudioUrl(null) changes nothing.
LegacyNoDisplayedUrl == clonedAudioUrl = NoUrl

\* ================================================================ Recorder
\* ----------------------------------------------------------------- bounds
MaxSessions == 2
MaxChunks == 1

NoSession == 0
Sessions == 1..MaxSessions

NotAllowedMessage == "Microphone access was denied. Please allow microphone access to record audio."
NotFoundMessage == "No microphone found. Please connect a microphone and try again."
StartFailedMessage == "Failed to start recording"
StopFailedMessage == "Failed to stop recording. Please try again."

InitRecorder ==
    /\ rec_isRecording = FALSE
    /\ rec_isLoading = FALSE
    /\ rec_audioUrl = NoSession
    /\ rec_error = ""
    /\ recorderRef = NoSession
    /\ session = [s \in Sessions |-> "unused"]
    /\ streamOpen = [s \in Sessions |-> FALSE]
    /\ chunks = [s \in Sessions |-> 0]
    /\ recOps = {}
    /\ nextSession = 1

\* ============================================================= AudioPlayer
\* ----------------------------------------------------------------- bounds
MaxPlayerUrls == 3
MaxPlays == 2

\* The slider runs from 0 to 1 in steps of 0.1: volumes in tenths.
FullVolume == 10
VolumeInputs == {0, 5, FullVolume}

\* URLs: <<"blob", n>> is the n-th object URL the AudioPlayer created,
\* <<"given", n>> a URL handed in as a string, NoPlayerUrl is null.
NoPlayerUrl == <<"none", 0>>
ObjectUrl(n) == <<"blob", n>>
PlayerObjectUrls == {ObjectUrl(n) : n \in 1..MaxPlayerUrls}
GivenUrls == {<<"given", 1>>}
\* The src prop: a Blob, a URL string, or null.
BlobSrcs == {<<"Blob", 1>>, <<"Blob", 2>>}
SrcInputs == BlobSrcs \cup GivenUrls \cup {NoPlayerUrl}

InitPlayer ==
    /\ ap_mounted = FALSE
    /\ ap_src = NoPlayerUrl
    /\ ap_audioUrl = NoPlayerUrl
    /\ ap_cleanup = NoPlayerUrl
    /\ ap_phase = "idle"
    /\ ap_nextUrl = 1
    /\ ap_revokeCount = [u \in PlayerObjectUrls \cup GivenUrls |-> 0]
    /\ ap_isPlaying = FALSE
    /\ ap_volume = FullVolume
    /\ ap_isMuted = FALSE
    /\ el_volume = FullVolume
    /\ el_muted = FALSE
    /\ el_playing = FALSE
    /\ ap_plays = 0

\* `if (!audioUrl) return null`: the controls and the <audio> element exist
\* (audioRef.current is set) only while audioUrl is set.
PlayerRendered == ap_mounted /\ ap_phase = "idle" /\ ap_audioUrl # NoPlayerUrl

\* ------------------------------------------------------- useEffect([src])
\* The AudioPlayer is mounted with a src: its first render is committed.
MountPlayer(src) ==
    /\ ~ap_mounted
    /\ ap_mounted' = TRUE
    /\ ap_src' = src
    /\ ap_phase' = "effect"
    /\ lastOp' = Op("mountPlayer", "")
    /\ UNCHANGED <<ap_audioUrl, ap_cleanup, ap_nextUrl, ap_revokeCount,
                   ap_isPlaying, ap_volume, ap_isMuted, el_volume, el_muted,
                   el_playing, ap_plays>>

\* The parent renders the AudioPlayer with another src: the commit runs the
\* cleanup of the previous effect, then the effect.
RenderSrc(src) ==
    /\ ap_mounted /\ ap_phase = "idle"
    /\ src # ap_src
    /\ ap_src' = src
    /\ ap_phase' = "cleanup"
    /\ lastOp' = Op("renderSrc", "")
    /\ UNCHANGED <<ap_mounted, ap_audioUrl, ap_cleanup, ap_nextUrl,
                   ap_revokeCount, ap_isPlaying, ap_volume, ap_isMuted,
                   el_volume, el_muted, el_playing, ap_plays>>

\* Variant whose cleanup revokes the URL in the audioUrl state.
CleanupTarget_FromState == ap_audioUrl

\* The URL the cleanup returned by the effect revokes: the `url` of its
\* closure; NoPlayerUrl when the effect returned no cleanup.
CleanupTarget == ap_cleanup

\* () => { URL.revokeObjectURL(url) }
RunCleanup ==
    ap_revokeCount' = IF CleanupTarget # NoPlayerUrl
                      THEN [ap_revokeCount EXCEPT ![CleanupTarget] = @ + 1]
                      ELSE ap_revokeCount

EffectCleanup ==
    /\ ap_mounted /\ ap_phase = "cleanup"
    /\ RunCleanup
    /\ ap_cleanup' = NoPlayerUrl
    /\ ap_phase' = "effect"
    /\ lastOp' = Op("effectCleanup", "")
    /\ UNCHANGED <<ap_mounted, ap_src, ap_audioUrl, ap_nextUrl, ap_isPlaying,
                   ap_volume, ap_isMuted, el_volume, el_muted, el_playing,
                   ap_plays>>

\* The effect body.  A Blob gets an object URL and a cleanup; anything else
\* is stored as it is.  The <audio> element is created when audioUrl becomes
\* set and dropped when it becomes null.
EffectRun ==
    /\ ap_mounted /\ ap_phase = "effect"
    /\ IF ap_src \in BlobSrcs
       THEN /\ ap_nextUrl <= MaxPlayerUrls
            /\ ap_audioUrl' = ObjectUrl(ap_nextUrl)
            /\ ap_cleanup' = ObjectUrl(ap_nextUrl)
            /\ ap_nextUrl' = ap_nextUrl + 1
       ELSE /\ ap_audioUrl' = ap_src
            /\ ap_cleanup' = NoPlayerUrl
            /\ UNCHANGED ap_nextUrl
    /\ IF (ap_audioUrl = NoPlayerUrl) # (ap_audioUrl' = NoPlayerUrl)
       THEN el_volume' = FullVolume /\ el_muted' = FALSE /\ el_playing' = FALSE
       ELSE UNCHANGED <<el_volume, el_muted, el_playing>>
    /\ ap_phase' = "idle"
    /\ lastOp' = Op("effect", "")
    /\ UNCHANGED <<ap_mounted, ap_src, ap_revokeCount, ap_isPlaying, ap_volume,
                   ap_isMuted, ap_plays>>

\* The AudioPlayer unmounts: the cleanup runs and the state is discarded.
UnmountPlayer ==
    /\ ap_mounted /\ ap_phase = "idle"
    /\ RunCleanup
    /\ ap_mounted' = FALSE
    /\ ap_src' = NoPlayerUrl
    /\ ap_audioUrl' = NoPlayerUrl
    /\ ap_cleanup' = NoPlayerUrl
    /\ ap_isPlaying' = FALSE
    /\ ap_volume' = FullVolume
    /\ ap_isMuted' = FALSE
    /\ el_volume' = FullVolume
    /\ el_muted' = FALSE
    /\ el_playing' = FALSE
    /\ ap_plays' = 0
    /\ lastOp' = Op("unmountPlayer", "")
    /\ UNCHANGED <<ap_phase, ap_nextUrl>>

\* ------------------------------------------------------ handleVolumeChange
HandleVolumeChange(newValue) ==
    /\ PlayerRendered
    /\ el_volume' = newValue
    /\ ap_volume' = newValue
    /\ ap_isMuted' = (newValue = 0)
    /\ lastOp' = OpArg("handleVolumeChange", "", ap_volume, "")
    /\ UNCHANGED <<ap_mounted, ap_src, ap_audioUrl, ap_cleanup, ap_phase,
                   ap_nextUrl, ap_revokeCount, ap_isPlaying, el_muted,
                   el_playing, ap_plays>>

\* -------------------------------------------------------- handleMuteToggle
\* setVolume(1) on unmute.
VolumeAfterUnmute == FullVolume

HandleMuteToggle ==
    /\ PlayerRendered
    /\ LET newMuted == ~ap_isMuted IN
       /\ el_muted' = newMuted
       /\ ap_isMuted' = newMuted
       /\ ap_volume' = IF newMuted THEN 0 ELSE VolumeAfterUnmute
    /\ lastOp' = OpArg("handleMuteToggle", "", ap_volume, "")
    /\ UNCHANGED <<ap_mounted, ap_src, ap_audioUrl, ap_cleanup, ap_phase,
                   ap_nextUrl, ap_revokeCount, ap_isPlaying, el_volume,
                   el_playing, ap_plays>>

\* --------------------------------------------------------- handlePlayPause
PlaybackErrorLog == "Playback error:"
AudioErrorLog == "Audio error:"

\* handlePlayPause().  pause() fires `pause` (onPause) and rejects the play()
\* promises still pending, whose catch calls setIsPlaying(false); play()
\* returns a promise that settles later.
HandlePlayPause ==
    /\ PlayerRendered
    /\ IF ap_isPlaying
       THEN /\ el_playing' = FALSE
            /\ ap_plays' = 0
            /\ ap_isPlaying' = FALSE
       ELSE /\ ap_plays < MaxPlays
            /\ ap_plays' = ap_plays + 1
            /\ ap_isPlaying' = TRUE
            /\ UNCHANGED el_playing
    /\ lastOp' = Op("handlePlayPause", "")
    /\ UNCHANGED <<ap_mounted, ap_src, ap_audioUrl, ap_cleanup, ap_phase,
                   ap_nextUrl, ap_revokeCount, ap_volume, ap_isMuted,
                   el_volume, el_muted>>

\* A play() promise settles: playback starts and `play` fires (onPlay), or
\* the promise rejects and its catch logs the error and calls
\* setIsPlaying(false).
PlaySettled(ok) ==
    /\ PlayerRendered
    /\ ap_plays > 0
    /\ ap_plays' = ap_plays - 1
    /\ IF ok
       THEN /\ el_playing' = TRUE
            /\ ap_isPlaying' = TRUE
            /\ lastOp' = Op("playSettled", "")
       ELSE /\ ap_isPlaying' = FALSE
            /\ lastOp' = Op("playSettled", PlaybackErrorLog)
            /\ UNCHANGED el_playing
    /\ UNCHANGED <<ap_mounted, ap_src, ap_audioUrl, ap_cleanup, ap_phase,
                   ap_nextUrl, ap_revokeCount, ap_volume, ap_isMuted,
                   el_volume, el_muted>>

\* The <audio> element fires `error` (onError), for instance on a decode
\* error: the handler logs it and calls setIsPlaying(false).
AudioElementError ==
    /\ PlayerRendered
    /\ el_playing' = FALSE
    /\ ap_isPlaying' = FALSE
    /\ lastOp' = Op("audioError", AudioErrorLog)
    /\ UNCHANGED <<ap_mounted, ap_src, ap_audioUrl, ap_cleanup, ap_phase,
                   ap_nextUrl, ap_revokeCount, ap_volume, ap_isMuted,
                   el_volume, el_muted, ap_plays>>

\* Playback reaches the end: onEnded.
AudioEnded ==
    /\ PlayerRendered
    /\ el_playing
    /\ el_playing' = FALSE
    /\ ap_isPlaying' = FALSE
    /\ lastOp' = Op("audioEnded", "")
    /\ UNCHANGED <<ap_mounted, ap_src, ap_audioUrl, ap_cleanup, ap_phase,
                   ap_nextUrl, ap_revokeCount, ap_volume, ap_isMuted,
                   el_volume, el_muted, ap_plays>>

\* ====================================== Recorder: playback of the preview
PlayFailedMessage == "Failed to play audio. Please try again."

InitPreview ==
    /\ rec_isPlaying = FALSE
    /\ rec_plays = 0
    /\ rec_elPlaying = FALSE
    /\ rec_revokeCount = [s \in Sessions |-> 0]

\* The preview <audio> and the Play Recording button exist while audioUrl is set.
PreviewRendered == rec_audioUrl # NoSession
\* disabled={isRecording || isLoading}
PlayButtonEnabled == ~(rec_isRecording \/ rec_isLoading)

\* togglePlayback().  pause() rejects the play() promises still pending, whose
\* catch calls handleError; play() returns a promise that settles later.
\* `throws`: play() or pause() threw, so the catch block ran instead of
\* setIsPlaying.
TogglePlayback(throws) ==
    /\ mounted
    /\ PreviewRendered
    /\ IF throws
       THEN /\ rec_error' = PlayFailedMessage
            /\ rec_isLoading' = FALSE
            /\ rec_isRecording' = FALSE
            /\ lastOp' = Op("togglePlayback", PlayFailedMessage)
            /\ UNCHANGED <<rec_isPlaying, rec_plays, rec_elPlaying>>
       ELSE IF rec_isPlaying
       THEN /\ rec_elPlaying' = FALSE
            /\ rec_plays' = 0
            /\ rec_isPlaying' = FALSE
            /\ IF rec_plays > 0
               THEN /\ rec_error' = PlayFailedMessage
                    /\ rec_isLoading' = FALSE
                    /\ rec_isRecording' = FALSE
               ELSE UNCHANGED <<rec_error, rec_isLoading, rec_isRecording>>
            /\ lastOp' = Op("togglePlayback", "")
       ELSE /\ rec_plays < MaxPlays
            /\ rec_plays' = rec_plays + 1
            /\ rec_isPlaying' = TRUE
            /\ lastOp' = Op("togglePlayback", "")
            /\ UNCHANGED <<rec_elPlaying, rec_error, rec_isLoading, rec_isRecording>>
    /\ UNCHANGED <<rec_audioUrl, recorderRef, session, streamOpen, chunks,
                   recOps, nextSession, rec_revokeCount>>

\* A play() promise of the preview settles: playback starts, or the catch
\* calls handleError (setError, setIsLoading(false), setIsRecording(false)).
PreviewPlaySettled(ok) ==
    /\ mounted
    /\ rec_plays > 0
    /\ rec_plays' = rec_plays - 1
    /\ IF ok
       THEN /\ rec_elPlaying' = TRUE
            /\ lastOp' = Op("previewPlaySettled", "")
            /\ UNCHANGED <<rec_error, rec_isLoading, rec_isRecording>>
       ELSE /\ rec_error' = PlayFailedMessage
            /\ rec_isLoading' = FALSE
            /\ rec_isRecording' = FALSE
            /\ lastOp' = Op("previewPlaySettled", PlayFailedMessage)
            /\ UNCHANGED rec_elPlaying
    /\ UNCHANGED <<rec_isPlaying, rec_audioUrl, recorderRef, session, streamOpen,
                   chunks, recOps, nextSession, rec_revokeCount>>

\* The preview reaches its end: onEnded={() => setIsPlaying(false)}.
PreviewEnded ==
    /\ mounted
    /\ rec_elPlaying
    /\ rec_elPlaying' = FALSE
    /\ rec_isPlaying' = FALSE
    /\ lastOp' = Op("previewEnded", "")
    /\ UNCHANGED <<recVars, rec_plays, rec_revokeCount>>

\* ===================================================== Home (part_001)
NoHomeUrl == 0

InitHome ==
    /\ home_recordedAudio = NoHomeUrl
    /\ home_nextUrl = 1
    /\ home_revokeCount = [u \in Sessions |-> 0]

\* Home.handleRecordingComplete(audioBlob)
HomeHandleRecordingComplete(audioBlob) ==
    /\ home_recordedAudio' = home_nextUrl
    /\ home_nextUrl' = home_nextUrl + 1
    /\ lastOp' = OpArg("Home.handleRecordingComplete", audioBlob, "", "")
    /\ UNCHANGED home_revokeCount

\* ------------------------------------------------------------ notify (Toast)
\* A toast id as returned by notify.loading: one per invocation and stage.
Stages == {"transcribe", "translate", "synthesize"}
ToastIds == (1..MaxRuns) \X Stages

InitToasts == toasts = [id \in ToastIds |-> "none"]

\* notify.loading(message): toast.loading opens a toast and returns its id.
NotifyLoading(ts, toastId) == [ts EXCEPT ![toastId] = "loading"]

\* notify.update(toastId, message, type = 'success'): toast.error or
\* toast.success with `id: toastId` replaces the toast of that id.
NotifyUpdate(ts, toastId, type) ==
    [ts EXCEPT ![toastId] = IF type = "error" THEN "error" ELSE "success"]

\* notify.error(message): toast.error without an id opens a toast of its own
\* and leaves every other toast as it is.
NotifyError(ts) == ts

Init ==
    /\ InitApp /\ InitRecorder /\ InitPlayer /\ InitPreview /\ InitHome
    /\ InitToasts
    /\ lastOp = Op("mount", "")

\* ---------------------------------------------------- AudioRecorder (utils)
\* start(): InvalidState when the session is already recording; otherwise it
\* starts buffering chunks, or fails and releases the device.
AudioRecorderStart(s, ok) ==
    IF session[s] = "recording" THEN "InvalidState"
    ELSE IF ok THEN "recording"
    ELSE "Error"

\* stop(): InvalidState when the session is not recording; otherwise it
\* finalizes the chunks into one blob, or fails.
AudioRecorderStop(s, ok) ==
    IF session[s] # "recording" THEN "InvalidState"
    ELSE IF ok THEN "stopped"
    ELSE "Error"

\* The session's device after start()/stop() settled with `result`: released
\* on stop and on every error of a session that held it.
StreamAfter(s, result) ==
    IF result = "recording" THEN streamOpen[s]
    ELSE IF result = "InvalidState" THEN streamOpen[s]
    ELSE FALSE

\* The blob stop() resolves with: the buffered chunks, possibly none.
BlobOf(s) == IF chunks[s] = 0 THEN "emptyBlob" ELSE "blobA"

\* A chunk becomes available (ondataavailable) while the device is open.
ChunkArrives ==
    /\ \E s \in Sessions :
          /\ session[s] = "recording"
          /\ streamOpen[s]
          /\ chunks[s] < MaxChunks
          /\ chunks' = [chunks EXCEPT ![s] = @ + 1]
    /\ lastOp' = Op("chunk", "")
    /\ UNCHANGED <<rec_isRecording, rec_isLoading, rec_audioUrl, rec_error,
                   recorderRef, session, streamOpen, recOps, nextSession>>

\* ------------------------------------------------------------ startRecording
\* startRecording() up to `await navigator.mediaDevices.getUserMedia(...)`.
StartRecording ==
    /\ mounted
    /\ nextSession <= MaxSessions
    /\ rec_isLoading' = TRUE
    /\ rec_error' = ""
    /\ recOps' = recOps \cup {[op |-> "getUserMedia", s |-> NoSession, lang |-> ""]}
    /\ lastOp' = Op("startRecording", "")
    /\ UNCHANGED <<rec_isRecording, rec_audioUrl, recorderRef, session,
                   streamOpen, chunks, nextSession>>

\* getUserMedia settled.  On a stream: new AudioRecorder(stream) is stored in
\* recorderRef and start() is awaited.  On a rejection: catch and finally.
GetUserMediaSettled(o, outcome) ==
    /\ mounted
    /\ o \in recOps /\ o.op = "getUserMedia"
    /\ IF outcome = "stream"
       THEN /\ nextSession <= MaxSessions
            /\ recorderRef' = nextSession
            /\ session' = [session EXCEPT ![nextSession] = "idle"]
            /\ streamOpen' = [streamOpen EXCEPT ![nextSession] = TRUE]
            /\ nextSession' = nextSession + 1
            /\ recOps' = (recOps \ {o}) \cup
                  {[op |-> "start", s |-> nextSession, lang |-> ""]}
            /\ lastOp' = Op("getUserMedia", "")
            /\ UNCHANGED <<rec_isRecording, rec_isLoading, rec_error>>
       ELSE /\ rec_error' = (IF outcome = "NotAllowedError" THEN NotAllowedMessage
                             ELSE IF outcome = "NotFoundError" THEN NotFoundMessage
                             ELSE StartFailedMessage)
            /\ rec_isLoading' = FALSE
            /\ rec_isRecording' = FALSE
            /\ recOps' = recOps \ {o}
            /\ lastOp' = Op("getUserMedia", outcome)
            /\ UNCHANGED <<recorderRef, session, streamOpen, nextSession>>
    /\ UNCHANGED <<rec_audioUrl, chunks>>

\* recorderRef.current.start() settled: the rest of startRecording.
StartSettled(o, ok) ==
    /\ mounted
    /\ o \in recOps /\ o.op = "start"
    /\ LET result == AudioRecorderStart(o.s, ok) IN
       /\ streamOpen' = [streamOpen EXCEPT ![o.s] = StreamAfter(o.s, result)]
       /\ IF result = "recording"
          THEN /\ session' = [session EXCEPT ![o.s] = "recording"]
               /\ rec_isRecording' = TRUE
               /\ rec_audioUrl' = NoSession
               /\ UNCHANGED rec_error
          ELSE /\ session' = IF result = "Error"
                             THEN [session EXCEPT ![o.s] = "stopped"]
                             ELSE session
               /\ rec_error' = StartFailedMessage
               /\ rec_isRecording' = FALSE
               /\ UNCHANGED rec_audioUrl
       /\ lastOp' = Op("start", IF result = "recording" THEN "" ELSE result)
    /\ rec_isLoading' = FALSE
    /\ recOps' = recOps \ {o}
    /\ UNCHANGED <<recorderRef, chunks, nextSession>>

\* ------------------------------------------------------------- stopRecording
\* stopRecording() up to `await recorderRef.current.stop()`; `lang` is the
\* targetLang closed over by the onRecordingComplete prop it will call.
StopRecording(lang) ==
    /\ mounted
    /\ IF recorderRef = NoSession
       THEN \* if (!recorderRef.current) return;
            /\ lastOp' = Op("stopRecording", "")
            /\ UNCHANGED <<rec_isLoading, rec_error, recOps>>
       ELSE /\ rec_isLoading' = TRUE
            /\ rec_error' = ""
            /\ recOps' = recOps \cup {[op |-> "stop", s |-> recorderRef, lang |-> lang]}
            /\ lastOp' = Op("stopRecording", "")
    /\ UNCHANGED <<rec_isRecording, rec_audioUrl, recorderRef, session,
                   streamOpen, chunks, nextSession>>

\* recorderRef.current.stop() settled: the Recorder's part of the rest of
\* stopRecording (the call of onRecordingComplete is the caller's conjunct).
StopSettled(o, ok) ==
    /\ mounted
    /\ o \in recOps /\ o.op = "stop"
    /\ LET result == AudioRecorderStop(o.s, ok) IN
       /\ streamOpen' = [streamOpen EXCEPT ![o.s] = StreamAfter(o.s, result)]
       /\ session' = IF result = "InvalidState" THEN session
                     ELSE [session EXCEPT ![o.s] = "stopped"]
       /\ IF result = "stopped"
          THEN /\ rec_audioUrl' = o.s
               /\ UNCHANGED rec_error
          ELSE /\ rec_error' = StopFailedMessage
               /\ UNCHANGED rec_audioUrl
    /\ rec_isRecording' = FALSE
    /\ rec_isLoading' = FALSE
    /\ recOps' = recOps \ {o}
    /\ UNCHANGED <<recorderRef, chunks, nextSession>>

\* stop() resolved with a blob, so onRecordingComplete is called with it.
Delivers(o, ok) == AudioRecorderStop(o.s, ok) = "stopped"

\* stopRecording ended without calling onRecordingComplete (stop() failed, or
\* the component was given no onRecordingComplete).
StopEnded(o, ok) ==
    LET result == AudioRecorderStop(o.s, ok) IN
    lastOp' = Op("stop", IF result = "stopped" THEN "" ELSE result)

GetUserMediaOutcomes == {"stream", "NotAllowedError", "NotFoundError", "OtherError"}

\* ------------------------------------------------------------ specifications
AppSettled ==
    \E c \in calls :
        \/ \E reply \in TranscribeReplies : TranscribeSettled(c, reply)
        \/ \E reply \in TranslateReplies(c.text) : TranslateSettled(c, reply)
        \/ \E reply \in SynthesizeReplies : SynthesizeSettled(c, reply)

\* ---- the App's handlers invoked directly, with any argument, in any state
CallLanguageChange == \E v \in LangInputs : HandleLanguageChange(v)
CallTranslateText == \E t \in TextInputs : TranslateText(t)
CallRecordingComplete == \E b \in BlobInputs : HandleRecordingComplete(b, targetLang)
CallFileUpload == \E f \in FileInputs \cup {NoFile} : HandleFileUpload(f)
CallRemoveFile == HandleRemoveFile
CallCloneVoice == HandleCloneVoice

NextHandlers ==
    /\ \/ CallLanguageChange
       \/ CallTranslateText
       \/ CallRecordingComplete
       \/ CallFileUpload
       \/ CallRemoveFile
       \/ CallCloneVoice
       \/ AppSettled
       \/ Unmount
    /\ UNCHANGED <<recVars, sideVars>>

SpecHandlers == Init /\ [][NextHandlers]_vars

\* ---- the four pipeline handlers invoked in any order, with every request
\* ---- answered in the end: axios settles each post with a response, an
\* ---- error or, after `timeout` ms, a timeout
RunIds == 1..MaxRuns

RunSettles(id) ==
    /\ \E c \in calls :
          /\ c.id = id
          /\ \/ \E reply \in TranscribeReplies : TranscribeSettled(c, reply)
             \/ \E reply \in TranslateReplies(c.text) : TranslateSettled(c, reply)
             \/ \E reply \in SynthesizeReplies : SynthesizeSettled(c, reply)
    /\ UNCHANGED <<recVars, sideVars>>

PipelineTranslate == CallTranslateText /\ UNCHANGED <<recVars, sideVars>>
PipelineRecording == CallRecordingComplete /\ UNCHANGED <<recVars, sideVars>>
PipelineUpload == CallFileUpload /\ UNCHANGED <<recVars, sideVars>>
PipelineClone == CallCloneVoice /\ UNCHANGED <<recVars, sideVars>>
PipelineSettled == \E id \in RunIds : RunSettles(id)

NextPipeline ==
    \/ PipelineTranslate
    \/ PipelineRecording
    \/ PipelineUpload
    \/ PipelineClone
    \/ PipelineSettled

SpecPipeline ==
    Init /\ [][NextPipeline]_vars /\ \A id \in RunIds : WF_vars(RunSettles(id))

\* ---- the pipeline handlers together with the toasts they open and update
\* translateText up to its await: the guards report through notify.error,
\* otherwise `const toastId = notify.loading('Translating text...')`.
TranslateTextToasts(text) ==
    IF TranslatePrecondition(text, targetLang) # "" THEN NotifyError(toasts)
    ELSE NotifyLoading(toasts, <<nextRun, "translate">>)

\* handleRecordingComplete up to its await.
RecordingCompleteToasts(audioBlob) ==
    IF audioBlob = NullBlob THEN NotifyError(toasts)
    ELSE NotifyLoading(toasts, <<nextRun, "transcribe">>)

\* handleFileUpload up to its await (notify.success for the accepted file is
\* a toast of its own).
FileUploadToasts(file) ==
    IF file = NoFile THEN toasts
    ELSE IF ~TypeAllowed(file) \/ TooLarge(file) THEN NotifyError(toasts)
    ELSE NotifyLoading(toasts, <<nextRun, "transcribe">>)

\* handleCloneVoice up to its await.
CloneVoiceToasts ==
    IF ClonePrecondition # "" THEN NotifyError(toasts)
    ELSE NotifyLoading(toasts, <<nextRun, "synthesize">>)

\* After the transcribe request settles. Success: notify.update(toastId,
\* 'Transcription complete!'), then translateText opens its own toast or
\* stops at a guard. Failure: handleFileUpload's catch calls
\* notify.update(toastId, ..., 'error'); handleRecordingComplete's catch
\* calls handleApiError only, which reports through notify.error.
TranscribeSettledToasts(c, reply) ==
    LET t == TranscribedText(c.kind, reply)
        id == <<c.id, "transcribe">> IN
    IF t = ""
    THEN IF c.kind = "record" THEN NotifyError(toasts)
         ELSE NotifyUpdate(toasts, id, "error")
    ELSE LET done == NotifyUpdate(toasts, id, "success") IN
         IF t = SENTINEL THEN done
         ELSE IF TranslatePrecondition(TextToTranslate(t), c.lang) # ""
         THEN NotifyError(done)
         ELSE NotifyLoading(done, <<c.id, "translate">>)

\* After the translate request settles: notify.update(toastId, ...) on
\* success, and in the catch block before handleApiError.
TranslateSettledToasts(c, reply) ==
    IF TranslationIn(reply, c.lang) # ""
    THEN NotifyUpdate(toasts, <<c.id, "translate">>, "success")
    ELSE NotifyError(NotifyUpdate(toasts, <<c.id, "translate">>, "error"))

\* After the synthesize request settles: notify.update(toastId, 'Voice
\* cloning complete!') on success; the catch block calls handleApiError only.
SynthesizeSettledToasts(c, reply) ==
    IF SynthesisUsable(reply)
    THEN NotifyUpdate(toasts, <<c.id, "synthesize">>, "success")
    ELSE NotifyError(toasts)

otherSideVars == <<playerVars, previewVars, homeVars>>

ToastRunSettles(id) ==
    /\ \E c \in calls :
          /\ c.id = id
          /\ \/ \E reply \in TranscribeReplies :
                   /\ TranscribeSettled(c, reply)
                   /\ toasts' = TranscribeSettledToasts(c, reply)
             \/ \E reply \in TranslateReplies(c.text) :
                   /\ TranslateSettled(c, reply)
                   /\ toasts' = TranslateSettledToasts(c, reply)
             \/ \E reply \in SynthesizeReplies :
                   /\ SynthesizeSettled(c, reply)
                   /\ toasts' = SynthesizeSettledToasts(c, reply)
    /\ UNCHANGED <<recVars, otherSideVars>>

ToastTranslate ==
    /\ \E t \in TextInputs : TranslateText(t) /\ toasts' = TranslateTextToasts(t)
    /\ UNCHANGED <<recVars, otherSideVars>>

ToastRecording ==
    /\ \E b \in BlobInputs :
          /\ HandleRecordingComplete(b, targetLang)
          /\ toasts' = RecordingCompleteToasts(b)
    /\ UNCHANGED <<recVars, otherSideVars>>

ToastUpload ==
    /\ \E f \in FileInputs \cup {NoFile} :
          HandleFileUpload(f) /\ toasts' = FileUploadToasts(f)
    /\ UNCHANGED <<recVars, otherSideVars>>

ToastClone ==
    /\ HandleCloneVoice /\ toasts' = CloneVoiceToasts
    /\ UNCHANGED <<recVars, otherSideVars>>

ToastSettled == \E id \in RunIds : ToastRunSettles(id)

NextToasts ==
    \/ ToastTranslate
    \/ ToastRecording
    \/ ToastUpload
    \/ ToastClone
    \/ ToastSettled

SpecToasts ==
    Init /\ [][NextToasts]_vars /\ \A id \in RunIds : WF_vars(ToastRunSettles(id))

\* ---- the Recorder's handlers invoked directly, without onRecordingComplete
CallStartRecording == StartRecording
CallStopRecording == StopRecording("")
RecorderSettled ==
    \E o \in recOps :
        \/ \E outcome \in GetUserMediaOutcomes : GetUserMediaSettled(o, outcome)
        \/ \E ok \in BOOLEAN : StartSettled(o, ok)
        \/ \E ok \in BOOLEAN : StopSettled(o, ok) /\ StopEnded(o, ok)

NextRecorder ==
    /\ \/ CallStartRecording
       \/ CallStopRecording
       \/ RecorderSettled
       \/ ChunkArrives
    /\ UNCHANGED <<appVars, sideVars>>

SpecRecorder == Init /\ [][NextRecorder]_vars

\* ---- the rendered application: handlers reached through enabled controls
SelectEnabled == ~(isTranscribing \/ isTranslating \/ isCloning)
CloneButtonRendered == translation # ""
CloneButtonEnabled ==
    ~(isCloning \/ (lastRecordingRef = NullBlob /\ uploadedFile = NoFile))
RemoveButtonRendered == uploadedFile # NoFile
\* Variant without the `disabled` prop.
RecordButtonEnabled_Always == TRUE

\* disabled={isLoading || isPlaying}
RecordButtonEnabled == ~(rec_isLoading \/ rec_isPlaying)

SelectLanguage ==
    /\ SelectEnabled
    /\ \E v \in LangChoices : HandleLanguageChange(v)
    /\ UNCHANGED <<recVars, sideVars>>

SelectFile ==
    /\ \E f \in FileInputs \cup {NoFile} : HandleFileUpload(f)
    /\ UNCHANGED <<recVars, sideVars>>

ClickRemoveFile ==
    /\ RemoveButtonRendered
    /\ HandleRemoveFile
    /\ UNCHANGED <<recVars, sideVars>>

ClickCloneVoice ==
    /\ CloneButtonRendered /\ CloneButtonEnabled
    /\ HandleCloneVoice
    /\ UNCHANGED <<recVars, sideVars>>

\* Variant whose button always starts a recording.
RecordButtonHandler_AlwaysStart(lang) == StartRecording

\* onClick={isRecording ? stopRecording : startRecording}
RecordButtonHandler(lang) ==
    IF rec_isRecording THEN StopRecording(lang) ELSE StartRecording

ClickRecord ==
    /\ RecordButtonEnabled
    /\ RecordButtonHandler(targetLang)
    /\ UNCHANGED <<appVars, sideVars>>

MicrophoneSettled ==
    /\ \E o \in recOps :
          \/ \E outcome \in GetUserMediaOutcomes : GetUserMediaSettled(o, outcome)
          \/ \E ok \in BOOLEAN : StartSettled(o, ok)
    /\ UNCHANGED <<appVars, sideVars>>

RecordingStopped ==
    \E o \in recOps : \E ok \in BOOLEAN :
        /\ StopSettled(o, ok)
        /\ IF Delivers(o, ok)
           THEN HandleRecordingComplete(BlobOf(o.s), o.lang)
           ELSE StopEnded(o, ok) /\ UNCHANGED appVars
        /\ UNCHANGED sideVars

Chunk == ChunkArrives /\ UNCHANGED <<appVars, sideVars>>

NetworkSettled == AppSettled /\ UNCHANGED <<recVars, sideVars>>

CloseApp == Unmount /\ UNCHANGED <<recVars, sideVars>>

Next ==
    \/ SelectLanguage
    \/ SelectFile
    \/ ClickRemoveFile
    \/ ClickCloneVoice
    \/ ClickRecord
    \/ MicrophoneSettled
    \/ RecordingStopped
    \/ Chunk
    \/ NetworkSettled
    \/ CloseApp

Spec == Init /\ [][Next]_vars

\* ---- the rendered application of src/unnamed/part_000; its Recorder hands
\* ---- handleRecordingComplete the blob of a stopped recording
LegacySettled ==
    \E c \in calls :
        \/ \E reply \in TranscribeReplies : LegacyTranscribeSettled(c, reply)
        \/ \E reply \in LegacyTranslateReplies(c.text, c.lang) :
              LegacyTranslateSettled(c, reply)
        \/ \E reply \in SynthesizeReplies : LegacySynthesizeSettled(c, reply)

LegacySelectLanguage == SelectEnabled /\ \E v \in LangChoices : HandleLanguageChange(v)
LegacySelectFile == \E f \in FileInputs \cup {NoFile} : LegacyHandleFileUpload(f)
LegacyClickRemoveFile == RemoveButtonRendered /\ HandleRemoveFile
LegacyClickCloneVoice == CloneButtonRendered /\ CloneButtonEnabled /\ HandleCloneVoice
LegacyRecordingDelivered == \E b \in Blobs : HandleRecordingComplete(b, targetLang)

NextLegacy ==
    /\ \/ LegacySelectLanguage
       \/ LegacySelectFile
       \/ LegacyClickRemoveFile
       \/ LegacyClickCloneVoice
       \/ LegacyRecordingDelivered
       \/ LegacySettled
       \/ LegacyUnmount
    /\ UNCHANGED <<recVars, sideVars>>

SpecLegacy == Init /\ [][NextLegacy]_vars

\* ---- an AudioPlayer rendered by a parent that hands it any src
PlayerMounted == (\E src \in SrcInputs : MountPlayer(src)) /\ UNCHANGED <<appVars, recVars, previewVars, homeVars, toastVars>>
PlayerSrcChanged == (\E src \in SrcInputs : RenderSrc(src)) /\ UNCHANGED <<appVars, recVars, previewVars, homeVars, toastVars>>
PlayerCleanup == EffectCleanup /\ UNCHANGED <<appVars, recVars, previewVars, homeVars, toastVars>>
PlayerEffect == EffectRun /\ UNCHANGED <<appVars, recVars, previewVars, homeVars, toastVars>>
PlayerUnmounted == UnmountPlayer /\ UNCHANGED <<appVars, recVars, previewVars, homeVars, toastVars>>
SlideVolume == (\E v \in VolumeInputs : HandleVolumeChange(v)) /\ UNCHANGED <<appVars, recVars, previewVars, homeVars, toastVars>>
ClickMute == HandleMuteToggle /\ UNCHANGED <<appVars, recVars, previewVars, homeVars, toastVars>>
ClickPlayPause == HandlePlayPause /\ UNCHANGED <<appVars, recVars, previewVars, homeVars, toastVars>>
PlayPromiseSettled == (\E ok \in BOOLEAN : PlaySettled(ok)) /\ UNCHANGED <<appVars, recVars, previewVars, homeVars, toastVars>>
PlayerError == AudioElementError /\ UNCHANGED <<appVars, recVars, previewVars, homeVars, toastVars>>
PlayerEnded == AudioEnded /\ UNCHANGED <<appVars, recVars, previewVars, homeVars, toastVars>>

NextPlayer ==
    \/ PlayerMounted
    \/ PlayerSrcChanged
    \/ PlayerCleanup
    \/ PlayerEffect
    \/ PlayerUnmounted
    \/ SlideVolume
    \/ ClickMute
    \/ ClickPlayPause
    \/ PlayPromiseSettled
    \/ PlayerError
    \/ PlayerEnded

SpecPlayer == Init /\ [][NextPlayer]_vars

\* ---- the rendered Home page: a Recorder whose onRecordingComplete is
\* ---- Home.handleRecordingComplete
HomeClickRecord ==
    /\ RecordButtonEnabled
    /\ RecordButtonHandler("")
    /\ UNCHANGED <<appVars, playerVars, previewVars, homeVars, toastVars>>

HomeMicrophoneSettled ==
    /\ \E o \in recOps :
          \/ \E outcome \in GetUserMediaOutcomes : GetUserMediaSettled(o, outcome)
          \/ \E ok \in BOOLEAN : StartSettled(o, ok)
    /\ UNCHANGED <<appVars, playerVars, previewVars, homeVars, toastVars>>

HomeRecordingStopped ==
    \E o \in recOps : \E ok \in BOOLEAN :
        /\ StopSettled(o, ok)
        /\ IF Delivers(o, ok)
           THEN HomeHandleRecordingComplete(BlobOf(o.s))
           ELSE StopEnded(o, ok) /\ UNCHANGED homeVars
        /\ UNCHANGED <<appVars, playerVars, previewVars, toastVars>>

HomeChunk == ChunkArrives /\ UNCHANGED <<appVars, sideVars, toastVars>>

ClickPlayRecording ==
    /\ PlayButtonEnabled
    /\ \E throws \in BOOLEAN : TogglePlayback(throws)
    /\ UNCHANGED <<appVars, playerVars, homeVars, toastVars>>

PreviewPromiseSettled ==
    /\ \E ok \in BOOLEAN : PreviewPlaySettled(ok)
    /\ UNCHANGED <<appVars, playerVars, homeVars, toastVars>>

PreviewFinished == PreviewEnded /\ UNCHANGED <<appVars, playerVars, homeVars, toastVars>>

NextHome ==
    \/ HomeClickRecord
    \/ HomeMicrophoneSettled
    \/ HomeRecordingStopped
    \/ HomeChunk
    \/ ClickPlayRecording
    \/ PreviewPromiseSettled
    \/ PreviewFinished

SpecHome == Init /\ [][NextHome]_vars

\* ==================================================================== claims
Results == <<transcription, translation, clonedAudioUrl>>

\* C1: at most one synthesized-result object URL is live in every reachable
\* state, and every step that replaces or clears clonedAudioUrl has revoked
\* the URL it held.
C1_OneLiveUrl ==
    /\ [](Cardinality(LiveUrls) <= 1)
    /\ [][(clonedAudioUrl # NoUrl /\ clonedAudioUrl' # clonedAudioUrl)
            => revokeCount'[clonedAudioUrl] > 0]_vars

\* C2: when a successful synthesis replaces a displayed synthesized result,
\* the replaced URL has been revoked exactly once afterwards, and no URL is
\* ever revoked twice (neither by handleCloneVoice nor by the effect cleanup).
C2_RevokedExactlyOnce ==
    /\ [](\A u \in UrlIds : revokeCount[u] <= 1)
    /\ [][(lastOp'.op = "synthesizeSettled" /\ lastOp'.err = ""
            /\ clonedAudioUrl # NoUrl /\ clonedAudioUrl' # clonedAudioUrl)
            => revokeCount'[clonedAudioUrl] = 1]_vars

\* A second synthesized result is displayed and the first has been revoked.
C2_Witness ==
    /\ lastOp.op = "synthesizeSettled" /\ lastOp.err = ""
    /\ clonedAudioUrl = 2
    /\ revokeCount[1] = 1 /\ revokeCount[2] = 0

\* C3: handleCloneVoice with an empty translation reports NoText, with a
\* translation but no reference audio reports NoReferenceAudio; either way it
\* issues no request and leaves isCloning alone; every /synthesize request
\* carries a non-empty text and a reference audio.
C3_SynthesizePreconditions ==
    /\ [](\A q \in requests :
            q.endpoint = SYNTHESIZE => q.text # "" /\ q.ref # NullBlob /\ q.ref # "")
    /\ [][lastOp'.op = "handleCloneVoice" =>
            /\ translation = "" => lastOp'.err = SYNTHESIS_NO_TEXT
            /\ (translation # "" /\ lastRecordingRef = NullBlob /\ uploadedFile = NoFile)
                  => lastOp'.err = SYNTHESIS_NO_REFERENCE
            /\ lastOp'.err # "" =>
                  /\ requests' = requests
                  /\ calls' = calls
                  /\ isCloning' = isCloning]_vars

\* handleCloneVoice has just refused a translation for lack of a reference.
C3_Witness ==
    /\ lastOp.op = "handleCloneVoice"
    /\ lastOp.err = SYNTHESIS_NO_REFERENCE
    /\ translation # ""
    /\ ~isCloning

\* C4: translateText with empty text reports NoText, with an empty target
\* language reports InvalidLanguage; either way no request is issued,
\* isTranslating is not set and translation is unchanged; no /translate_text
\* request ever carries an empty text or language.
C4_TranslatePreconditions ==
    /\ [](\A q \in requests :
            q.endpoint = TRANSLATE => q.text # "" /\ q.lang # "")
    /\ [][lastOp'.op = "translateText" =>
            /\ lastOp'.arg = "" => lastOp'.err = TRANSLATION_NO_TEXT
            /\ (lastOp'.arg # "" /\ targetLang = "")
                  => lastOp'.err = TRANSLATION_INVALID_LANG
            /\ lastOp'.err # "" =>
                  /\ requests' = requests
                  /\ calls' = calls
                  /\ isTranslating' = isTranslating
                  /\ translation' = translation]_vars

\* translateText has just refused a text because no target language is set.
C4_Witness ==
    /\ lastOp.op = "translateText"
    /\ lastOp.arg = "Hello world"
    /\ lastOp.err = TRANSLATION_INVALID_LANG
    /\ targetLang = ""

\* C5: a run has at most one request outstanding, and its translate request
\* is issued in the step in which its own transcribe request settled with the
\* text that is sent, a usable (non-empty) one stored as the transcription.
C5_StagesInSequence ==
    /\ [](\A q1, q2 \in requests : q1.id = q2.id => q1 = q2)
    /\ [][\A q \in requests' \ requests :
            q.endpoint = TRANSLATE =>
               /\ \E q0 \in requests \ requests' :
                     q0.id = q.id /\ q0.endpoint = TRANSCRIBE
               /\ q.text # ""
               /\ transcription' = q.text]_vars

\* A run is translating the text its transcription returned.
C5_Witness ==
    \E q \in requests :
        /\ q.endpoint = TRANSLATE
        /\ q.text = "Hello world"
        /\ transcription = "Hello world"
        /\ isTranscribing /\ isTranslating
        /\ \E c \in calls : c.id = q.id /\ c.kind = "record"

\* A suspended invocation whose run has been superseded: a newer
\* transcription has started, or the target language (for a translation) or
\* the translation (for a synthesis) it works on has been replaced.
Superseded(c) ==
    \/ c.id < latestChain
    \/ c.pc = "translate" /\ c.lang # targetLang
    \/ c.pc = "synthesize" /\ c.text # translation

\* C6: the response of a superseded run never overwrites transcription,
\* translation or clonedAudioUrl.
C6_StaleRejected ==
    [][\A c \in calls :
          (c \notin calls' /\ mounted' /\ Superseded(c))
             => Results' = Results]_vars

\* C7: right after handleLanguageChange the translation is empty and
\* targetLang is the selected code.
C7_LanguageChangeClears ==
    lastOp.op = "handleLanguageChange" =>
        translation = "" /\ targetLang = lastOp.arg

\* The language was changed while a translation was displayed.
C7_Witness ==
    /\ lastOp.op = "handleLanguageChange"
    /\ lastOp.was = "Hola mundo"
    /\ lastOp.arg = "fr"
    /\ targetLang = "fr"

\* C8: when the synthesis of a recording's run (transcription "Hello world",
\* translation "Hola mundo" for es, no synthesized result yet) answers a usable
\* body and nothing else is in flight, the texts are unchanged, all flags are
\* false and clonedAudioUrl holds the one new, unrevoked URL; a synthesized
\* result is cleared only by a new transcription, a failed synthesis or unmount.
C8_EndToEnd ==
    /\ [][(/\ lastOp'.op = "synthesizeSettled" /\ lastOp'.err = ""
           /\ calls' = {}
           /\ transcription = "Hello world" /\ translation = "Hola mundo"
           /\ targetLang = "es"
           /\ lastRecordingRef # NullBlob
           /\ clonedAudioUrl = NoUrl /\ CreatedUrls = {})
          => /\ transcription' = "Hello world" /\ translation' = "Hola mundo"
             /\ ~isTranscribing' /\ ~isTranslating' /\ ~isCloning'
             /\ clonedAudioUrl' = 1
             /\ nextUrl' = 2
             /\ revokeCount'[1] = 0]_vars
    /\ [][(clonedAudioUrl # NoUrl /\ clonedAudioUrl' = NoUrl)
            => lastOp'.op \in {"handleRecordingComplete", "handleFileUpload",
                               "synthesizeSettled", "unmount"}]_vars

\* The end of the scenario as App.jsx reaches it (under Spec): one playable
\* result next to both texts.
C8_Witness ==
    /\ lastOp.op = "synthesizeSettled" /\ lastOp.err = ""
    /\ transcription = "Hello world" /\ translation = "Hola mundo"
    /\ targetLang = "es"
    /\ lastRecordingRef = "blobA" /\ uploadedFile = NoFile
    /\ ~isTranscribing /\ ~isTranslating /\ ~isCloning
    /\ calls = {}
    /\ clonedAudioUrl = 1 /\ LiveUrls = {1}

SomeRecording == \E s \in Sessions : session[s] = "recording"

\* C9: startRecording while a session is recording, and stopRecording while
\* none is, report an error (at once, or when the stop() they await rejects
\* with InvalidState).
C9_InvalidStateReported ==
    [][/\ (lastOp'.op = "startRecording" /\ SomeRecording) => lastOp'.err # ""
       /\ (lastOp'.op = "stopRecording" /\ ~SomeRecording)
             => \/ lastOp'.err # ""
                \/ \E o \in recOps' \ recOps :
                      o.op = "stop" /\ AudioRecorderStop(o.s, TRUE) = "InvalidState"]_vars

C11_OneRecordingSession ==
    /\ [](Cardinality({s \in Sessions : session[s] = "recording"}) <= 1)
    /\ [][nextSession' # nextSession =>
            \A s \in Sessions : session[s] \in {"unused", "stopped"}]_vars

\* A second recording runs after the first one was stopped.
C11_Witness ==
    /\ session[1] = "stopped"
    /\ session[2] = "recording"
    /\ recorderRef = 2
    /\ rec_isRecording

\* The selected file that the last handleFileUpload step was given.
Selected(f) == lastOp'.op = "handleFileUpload" /\ lastOp'.arg = f.name

\* The step issued no request and left the App's state as it was.
NothingDone ==
    /\ requests' = requests
    /\ calls' = calls
    /\ uploadedFile' = uploadedFile
    /\ transcription' = transcription
    /\ translation' = translation
    /\ clonedAudioUrl' = clonedAudioUrl
    /\ isTranscribing' = isTranscribing
    /\ isTranslating' = isTranslating
    /\ isCloning' = isCloning

\* C12: a selected file whose MIME type is none of audio/wav, audio/mp3,
\* audio/mpeg is rejected with the invalid-format message; no request is
\* issued and uploadedFile, the results and the flags are unchanged; no
\* /transcribe request ever carries a file of another type.
C12_InvalidTypeRejected ==
    /\ [](\A q \in requests : \A f \in FileInputs :
            (q.endpoint = TRANSCRIBE /\ q.fname = f.name)
               => f.type \in {"audio/wav", "audio/mp3", "audio/mpeg"})
    /\ [][\A f \in FileInputs :
            (Selected(f) /\ f.type \notin {"audio/wav", "audio/mp3", "audio/mpeg"})
               => lastOp'.err = TRANSCRIPTION_INVALID_FORMAT /\ NothingDone]_vars

\* A text file was refused while an uploaded file and its results are shown.
C12_Witness ==
    /\ lastOp.op = "handleFileUpload"
    /\ lastOp.arg = "notes.txt"
    /\ lastOp.err = TRANSCRIPTION_INVALID_FORMAT
    /\ uploadedFile.name = "full.mp3"
    /\ transcription = "Hello world"
    /\ translation = "Hola mundo"

\* C13: a selected file of an allowed type is rejected, with no request and
\* uploadedFile unchanged, exactly when it is larger than 10485760 bytes; a
\* file of 10485760 bytes or less is stored and sent to /transcribe.
C13_SizeLimit ==
    [][\A f \in FileInputs :
          (Selected(f) /\ f.type \in ALLOWED_AUDIO_TYPES) =>
             IF f.size > 10485760
             THEN lastOp'.err = FILE_TOO_LARGE /\ NothingDone
             ELSE /\ lastOp'.err = ""
                  /\ uploadedFile' = f
                  /\ \E q \in requests' \ requests :
                        q.endpoint = TRANSCRIBE /\ q.fname = f.name]_vars

\* A file one byte over the limit was refused after a file of exactly the
\* limit had been accepted.
C13_Witness ==
    /\ lastOp.op = "handleFileUpload"
    /\ lastOp.arg = "over.mp3"
    /\ lastOp.err = FILE_TOO_LARGE
    /\ uploadedFile.name = "full.mp3"
    /\ uploadedFile.size = 10485760

\* TRANSLATE requests issued by the step.
NewTranslateRequests == {q \in requests' \ requests : q.endpoint = TRANSLATE}

\* C14: when a transcription succeeds, the returned text is stored and sent
\* to /translate_text in the same step, unless it is the sentinel: then no
\* translate request is issued, the sentinel is the transcription and the
\* translation is empty.
C14_SentinelSkipsTranslation ==
    [][(lastOp'.op = "transcribeSettled" /\ lastOp'.err = "") =>
          IF transcription' = SENTINEL
          THEN NewTranslateRequests = {} /\ translation' = ""
          ELSE \E q \in NewTranslateRequests : q.text = transcription']_vars

\* C15: a synthesis that fails (rejected with or without a response, or
\* resolved with an empty body) leaves transcription, translation, targetLang,
\* uploadedFile and the last recording as they were, sets clonedAudioUrl to
\* null, creates no object URL and leaves isCloning false.
C15_SynthesisFailureFrame ==
    [][(lastOp'.op = "synthesizeSettled" /\ lastOp'.err # "") =>
          /\ transcription' = transcription
          /\ translation' = translation
          /\ targetLang' = targetLang
          /\ uploadedFile' = uploadedFile
          /\ lastRecordingRef' = lastRecordingRef
          /\ clonedAudioUrl' = NoUrl
          /\ nextUrl' = nextUrl
          /\ isCloning' = FALSE]_vars

\* A synthesis failed after an earlier one had succeeded.
C15_Witness ==
    /\ lastOp.op = "synthesizeSettled"
    /\ lastOp.err = SYNTHESIS_FAILED
    /\ nextUrl = 2
    /\ clonedAudioUrl = NoUrl
    /\ translation # ""
    /\ ~isCloning

\* C16: a transcription that fails (rejected with or without a response, a
\* status other than the accepted one, or a body without the expected text
\* field) shows an error, issues no translate request, and leaves
\* transcription empty, translation empty and isTranscribing false.
C16_TranscriptionFailure ==
    [][(lastOp'.op = "transcribeSettled" /\ lastOp'.err # "") =>
          /\ NewTranslateRequests = {}
          /\ transcription' = ""
          /\ translation' = ""
          /\ isTranscribing' = FALSE]_vars

\* The translateText calls whose request the step settles.
TranslateSettling == {c \in calls \ calls' : c.pc = "translate"}

\* C17: a translation that fails (rejected with or without a response, or
\* answered without a translation for the language requested) shows an error,
\* leaves the transcription as it is, stores no translation (the translation
\* is kept or cleared, and the only text a settled translate request ever
\* stores is the translation into the language it asked for), and leaves
\* isTranslating and isTranscribing false.
C17_TranslationFailure ==
    [][lastOp'.op = "translateSettled" =>
          /\ \A c \in TranslateSettling :
                translation' \in {translation, "", TranslationOf(c.text, c.lang)}
          /\ lastOp'.err # "" =>
                /\ transcription' = transcription
                /\ translation' \in {translation, ""}
                /\ isTranslating' = FALSE
                /\ isTranscribing' = FALSE]_vars

\* A translation failed after its transcription had succeeded.
C17_Witness ==
    /\ lastOp.op = "translateSettled"
    /\ lastOp.err = TRANSLATION_FAILED
    /\ transcription = "Hello world"
    /\ translation = ""
    /\ ~isTranslating /\ ~isTranscribing

\* C18: handleRecordingComplete given no blob or a zero-length blob reports
\* TRANSCRIPTION.NO_AUDIO and sends nothing; isTranscribing, translation,
\* clonedAudioUrl and the last recording stay as they were.
C18_NoAudioRejected ==
    [][(lastOp'.op = "handleRecordingComplete"
          /\ lastOp'.arg \in {NullBlob, "emptyBlob"}) =>
          /\ lastOp'.err = TRANSCRIPTION_NO_AUDIO
          /\ requests' = requests
          /\ isTranscribing' = isTranscribing
          /\ translation' = translation
          /\ clonedAudioUrl' = clonedAudioUrl
          /\ lastRecordingRef' = lastRecordingRef]_vars

\* C19: a request to /synthesize carries the uploaded file under its own name
\* when a file is uploaded, otherwise the last recording as reference.webm;
\* handleRemoveFile drops the uploaded file and nothing else, so the next
\* reference is the last recording, if there is one.
C19_ReferenceSource ==
    /\ [][\A q \in requests' \ requests : q.endpoint = SYNTHESIZE =>
            IF uploadedFile # NoFile
            THEN q.ref = uploadedFile.name /\ q.fname = uploadedFile.name
            ELSE /\ lastRecordingRef # NullBlob
                 /\ q.ref = lastRecordingRef
                 /\ q.fname = "reference.webm"]_vars
    /\ [][lastOp'.op = "handleRemoveFile" =>
            uploadedFile' = NoFile /\ lastRecordingRef' = lastRecordingRef]_vars

\* The uploaded file was sent as the reference although a recording exists,
\* and the file has just been removed.
C19_Witness ==
    /\ lastOp.op = "handleRemoveFile"
    /\ uploadedFile = NoFile
    /\ lastRecordingRef = "blobA"
    /\ \E q \in requests :
          q.endpoint = SYNTHESIZE /\ q.ref = "full.mp3" /\ q.fname = "full.mp3"

\* The flag of the stage a request belongs to.
StageFlag(q) ==
    CASE q.endpoint = TRANSCRIBE -> isTranscribing
      [] q.endpoint = TRANSLATE  -> isTranslating
      [] q.endpoint = SYNTHESIZE -> isCloning

\* C20: while a request to /transcribe, /translate_text or /synthesize is
\* outstanding, the flag of its stage is true, so the Select is disabled, in
\* every interleaving the rendered App permits.
C20_FlagsCoverRequests ==
    \A q \in requests : StageFlag(q) /\ ~SelectEnabled

\* Steps that start a handler invocation, and steps that continue one after
\* its request settled.
InvocationStarts ==
    lastOp'.op \in {"handleRecordingComplete", "handleFileUpload",
                    "translateText", "handleCloneVoice"}
RequestSettles ==
    lastOp'.op \in {"transcribeSettled", "translateSettled", "synthesizeSettled"}

\* C21: no retries.  A step issues at most one request.  A request to
\* /transcribe or /synthesize is issued only by the step that starts an
\* invocation, under a run id never used before; a request to /translate_text
\* is issued by translateText called on its own or, once, by the step in which
\* the same run's transcription succeeded.  A step that settles a request
\* takes it off the outstanding ones, and when it reports a failure it issues
\* nothing and ends the invocation.
C21_NoRetries ==
    [][/\ Cardinality(requests' \ requests) <= 1
       /\ \A q \in requests' \ requests :
             \/ InvocationStarts /\ q.id = nextRun /\ nextRun' = nextRun + 1
             \/ /\ q.endpoint = TRANSLATE
                /\ lastOp'.op = "transcribeSettled" /\ lastOp'.err = ""
                /\ \E c \in calls : c.id = q.id /\ c.pc = "transcribe"
                /\ \E p \in requests \ requests' :
                      p.id = q.id /\ p.endpoint = TRANSCRIBE
       /\ RequestSettles =>
             /\ requests \ requests' # {}
             /\ lastOp'.err # "" =>
                   requests' \ requests = {} /\ Cardinality(calls') < Cardinality(calls)
      ]_vars

\* A synthesis has just failed with nothing outstanding, after the run's
\* transcribe and translate requests were answered.
C21_Witness ==
    /\ lastOp.op = "synthesizeSettled"
    /\ lastOp.err # ""
    /\ requests = {} /\ calls = {}
    /\ translation # ""
    /\ nextRun = 3

\* The handleRecordingComplete / handleFileUpload invocations in progress:
\* started, and neither failed nor past their translate response.
ChainsInProgress == {c \in calls : c.kind \in {"record", "upload"}}

\* C22: while a transcription run is in progress, from its start until its
\* own translate response is stored, translation is empty and clonedAudioUrl
\* is null.
C22_ChainRestarts ==
    ChainsInProgress # {} => translation = "" /\ clonedAudioUrl = NoUrl

\* C23: unmuting right after muting shows the volume that was set before the
\* muting (lastOp.was is the volume the muting step replaced).
C23_MuteRestoresVolume ==
    [][(lastOp.op = "handleMuteToggle" /\ ap_isMuted
          /\ lastOp'.op = "handleMuteToggle") =>
          ap_volume' = lastOp.was]_vars

\* The object URLs the AudioPlayer has created so far.
PlayerCreatedUrls == {ObjectUrl(n) : n \in 1..(ap_nextUrl - 1)}

\* C25: the AudioPlayer revokes no URL twice and never a URL it was handed as
\* a string; when it creates an object URL every URL it created before has
\* been revoked; and once it is unmounted every URL it created has been
\* revoked exactly once.
C25_PlayerUrlsReleased ==
    /\ [](\A u \in PlayerObjectUrls : ap_revokeCount[u] <= 1)
    /\ [](\A u \in GivenUrls : ap_revokeCount[u] = 0)
    /\ [](~ap_mounted => \A u \in PlayerCreatedUrls : ap_revokeCount[u] = 1)
    /\ [][ap_nextUrl' > ap_nextUrl =>
            \A u \in PlayerCreatedUrls : ap_revokeCount[u] = 1]_vars

\* An AudioPlayer that went from one Blob to another has been unmounted.
C25_Witness ==
    /\ lastOp.op = "unmountPlayer"
    /\ ap_nextUrl = 3
    /\ ap_revokeCount[ObjectUrl(1)] = 1
    /\ ap_revokeCount[ObjectUrl(2)] = 1

\* C24: when a play() promise rejects or the <audio> element fires `error`,
\* the component that handled it has isPlaying false afterwards, in the
\* Recorder's preview and in the AudioPlayer.
C24_PlaybackFailurePauses ==
    /\ [][(lastOp'.op = "previewPlaySettled" /\ lastOp'.err # "") =>
            ~rec_isPlaying']_vars
    /\ [][(lastOp'.op \in {"playSettled", "audioError"} /\ lastOp'.err # "") =>
            ~ap_isPlaying']_vars

\* C26: a step that clears or replaces the Recorder's preview URL, or
\* replaces the URL Home holds, has revoked the URL that was held.
C26_UrlsRevokedBeforeDropped ==
    /\ [][(rec_audioUrl # NoSession /\ rec_audioUrl' # rec_audioUrl) =>
            rec_revokeCount'[rec_audioUrl] > 0]_vars
    /\ [][(home_recordedAudio # NoHomeUrl
             /\ home_recordedAudio' # home_recordedAudio) =>
            home_revokeCount'[home_recordedAudio] > 0]_vars

InProgress(id) == \E c \in calls : c.id = id

\* C27: with every request answered in the end, every invocation of
\* handleRecordingComplete, handleFileUpload, translateText and
\* handleCloneVoice returns, and whenever no invocation is in progress
\* isTranscribing, isTranslating and isCloning are false.
C27_InvocationsTerminate ==
    /\ \A id \in RunIds : InProgress(id) ~> ~InProgress(id)
    /\ [](calls = {} => ~isTranscribing /\ ~isTranslating /\ ~isCloning)

\* Three invocations have returned, the last one a failed synthesis.
C27_Witness ==
    /\ calls = {}
    /\ nextRun = MaxRuns + 1
    /\ lastOp.op = "synthesizeSettled" /\ lastOp.err # ""
    /\ ~isTranscribing /\ ~isTranslating /\ ~isCloning

\* The languages in which the backend answers the displayed text.
DisplayedLanguages ==
    { l \in LangChoices :
        \E t \in TextInputs : t # "" /\ TranslationOf(t, l) = translation }

\* C28: a non-empty displayed translation was returned by a translate
\* request for the language currently selected (the card's heading names
\* targetLang), whatever recordings, uploads, language changes and late
\* responses came before.
C28_TranslationMatchesLanguage ==
    translation # "" => targetLang \in DisplayedLanguages

\* The stage of an invocation that owns a toast is still running.
StageInProgress(toastId) ==
    \E c \in calls : c.id = toastId[1] /\ c.pc = toastId[2]

\* C29: every loading toast opened by a pipeline stage is eventually replaced
\* under its own id by a success or an error toast, on every path, and no
\* toast is still in the loading state once its stage has ended.
C29_LoadingToastsReplaced ==
    /\ [](\A id \in ToastIds : toasts[id] = "loading" => StageInProgress(id))
    /\ \A id \in ToastIds :
          toasts[id] = "loading" ~> toasts[id] \in {"success", "error"}

====
